---- MODULE Spec2Model ----
(***************************************************************************)
(* Model of src/app.py: the self-healing scraper's run, from the press of  *)
(* the launch button to the final status, with the hybrid fetcher          *)
(* (fetch_html), the JSON-LD extractor, the subject extractor and the two  *)
(* inference-backed strategies.                                            *)
(*                                                                         *)
(* Strings are sequences of one-character strings, so that Python's        *)
(* substring test, strip() and the \w+ tokenizer are computed, not assumed.*)
(***************************************************************************)
EXTENDS Integers, Sequences, FiniteSets, TLC

\* ------------------------------------------------------------ bounds
\* most JSON-LD script blocks on a modelled page
MaxBlocks == 1
\* most selectable elements on a modelled page
MaxElems == 2
\* most JSON-LD script blocks on a page given to parse_json_ld alone
MaxLdBlocks == 3
\* longest intent given to extract_subject alone
MaxIntentLen == 4

\* ------------------------------------------------------------ strings
\* Python None / a value, for the variables that hold "a string or None"
None == [some |-> FALSE, v |-> <<>>]
Some(x) == [some |-> TRUE, v |-> x]

\* Python truthiness of "a string or None": None and "" are falsy
Truthy(o) == o.some /\ Len(o.v) > 0

\* Python `sub in s` on strings
Contains(s, sub) ==
  \E i \in 0..(Len(s) - Len(sub)) : SubSeq(s, i + 1, i + Len(sub)) = sub

Whitespace == {" ", "\n"}

\* Python str.strip()
Strip(s) ==
  LET keep == {i \in 1..Len(s) : s[i] \notin Whitespace}
  IN IF keep = {} THEN <<>>
     ELSE LET lo == CHOOSE i \in keep : \A j \in 1..(i - 1) : s[j] \in Whitespace
              hi == CHOOSE i \in keep :
                      \A j \in (i + 1)..Len(s) : s[j] \in Whitespace
          IN SubSeq(s, lo, hi)

\* the ASCII letters, upper case and lower case in the same order
UpperLetters ==
  <<"A", "B", "C", "D", "E", "F", "G", "H", "I", "J", "K", "L", "M",
    "N", "O", "P", "Q", "R", "S", "T", "U", "V", "W", "X", "Y", "Z">>
LowerLetters ==
  <<"a", "b", "c", "d", "e", "f", "g", "h", "i", "j", "k", "l", "m",
    "n", "o", "p", "q", "r", "s", "t", "u", "v", "w", "x", "y", "z">>

\* Characters outside ASCII are written by their code point. U+0130, the
\* capital I with a dot, is the character str.lower() turns into two: an i
\* and the combining dot U+0307.
C_IDot == "U+0130"
C_Dot == "U+0307"

\* Python str.lower() of one character that stays one character
LowerChar(c) ==
  IF \E k \in 1..Len(UpperLetters) : UpperLetters[k] = c
  THEN LowerLetters[CHOOSE k \in 1..Len(UpperLetters) : UpperLetters[k] = c]
  ELSE c

\* Python str.lower(): character by character, the result being longer than
\* s by one for every U+0130 in s
Lower(s) ==
  LET wide == {i \in 1..Len(s) : s[i] = C_IDot}
      \* where the second character of the lowering of s[w] lands
      second(w) == w + Cardinality({v \in wide : v <= w})
  IN [j \in 1..(Len(s) + Cardinality(wide)) |->
        IF \E w \in wide : second(w) = j THEN C_Dot
        ELSE LET i == j - Cardinality({w \in wide : second(w) < j})
             IN IF s[i] = C_IDot THEN "i" ELSE LowerChar(s[i])]

\* the characters \w matches
WordChars ==
  {LowerLetters[k] : k \in 1..Len(LowerLetters)}
    \cup {UpperLetters[k] : k \in 1..Len(UpperLetters)}
    \cup {"0", "1", "2", "3", "4", "5", "6", "7", "8", "9", "_"}

\* re.findall(r'\w+', s): the maximal runs of word characters, in order
RECURSIVE FindWords(_, _, _)
FindWords(s, i, cur) ==
  IF i > Len(s) THEN (IF cur = <<>> THEN <<>> ELSE <<cur>>)
  ELSE IF s[i] \in WordChars THEN FindWords(s, i + 1, Append(cur, s[i]))
  ELSE (IF cur = <<>> THEN <<>> ELSE <<cur>>) \o FindWords(s, i + 1, <<>>)

\* ------------------------------------------------------------ words
W_price == <<"p", "r", "i", "c", "e">>
W_data == <<"d", "a", "t", "a">>
W_name == <<"n", "a", "m", "e">>
W_description == <<"d", "e", "s", "c", "r", "i", "p", "t", "i", "o", "n">>

\* the stop words of extract_subject
stop_words ==
  { <<"e", "x", "t", "r", "a", "c", "t">>, <<"f", "i", "n", "d">>,
    <<"g", "e", "t">>, <<"t", "h", "e">>, <<"a">>, <<"a", "n">>, <<"o", "f">>,
    <<"v", "a", "l", "u", "e">>, <<"t", "e", "x", "t">>, W_name,
    <<"m", "o", "v", "i", "e">>, <<"p", "a", "g", "e">>,
    <<"w", "e", "b", "p", "a", "g", "e">>, <<"s", "i", "t", "e">> }

\* ScraperLogic.extract_subject
extract_subject_first(intent) ==
  LET words == FindWords(Lower(intent), 1, <<>>)
      candidates == SelectSeq(words, LAMBDA w : w \notin stop_words)
  IN IF Len(candidates) > 0 THEN candidates[1]
     ELSE IF Len(words) > 0 THEN words[Len(words)]
     ELSE W_data

extract_subject(intent) ==
  LET words == FindWords(Lower(intent), 1, <<>>)
      candidates == SelectSeq(words, LAMBDA w : w \notin stop_words)
  IN IF Len(candidates) > 0 THEN candidates[Len(candidates)]
     ELSE IF Len(words) > 0 THEN words[Len(words)]
     ELSE W_data

\* ------------------------------------------------------------ JSON-LD
\* A script block is what json.loads makes of it: "bad" (json.loads raises),
\* "dict" (items holds the one object) or "list" (items holds its elements).
\* An object holds name, description (a string or absent) and offers:
\* absent, one offer object, or a list of offer objects.
NoOffers == [kind |-> "absent", items |-> <<>>]
EmptyData == [name |-> None, description |-> None, offers |-> NoOffers]

\* data_found = {}
EmptyRecord == [name |-> None, description |-> None, price |-> None]

\* offer.get(key, '')
Get(o) == IF o.some THEN o.v ELSE <<>>

\* f"{offer.get('priceCurrency', '')} {offer.get('price', '')}"
PriceOfNoSpace(offer) == Get(offer.priceCurrency) \o Get(offer.price)
PriceOf(offer) == Get(offer.priceCurrency) \o <<" ">> \o Get(offer.price)

\* the body of the loop of parse_json_ld on one script block; an exception
\* leaves the fields assigned before it and goes on to the next block
ParseBlock(found, block) ==
  IF block.kind = "bad" THEN found
  ELSE
    LET data == IF block.items = <<>> THEN EmptyData ELSE block.items[1]
        f1 == IF data.name.some THEN [found EXCEPT !.name = data.name] ELSE found
        f2 == IF data.description.some
              THEN [f1 EXCEPT !.description = data.description] ELSE f1
    IN IF data.offers.kind = "absent" THEN f2
       ELSE IF data.offers.items = <<>> THEN f2
       ELSE [f2 EXCEPT !.price = Some(PriceOf(data.offers.items[1]))]

\* ScraperLogic.parse_json_ld
RECURSIVE ParseFrom(_, _, _)
ParseFrom(found, blocks, i) ==
  IF i > Len(blocks) THEN found
  ELSE ParseFrom(ParseBlock(found, blocks[i]), blocks, i + 1)

parse_json_ld(page) == ParseFrom(EmptyRecord, page.blocks, 1)

\* the success test of the JSON-LD stage
JsonLdHit(subj, found) == Contains(subj, W_price) /\ found.price.some

\* ------------------------------------------------------------ DOM
\* An element has a class and one text node. A selector is ".<class>";
\* anything else is a selector the query rejects with an exception.
NoElement == [some |-> FALSE, v |-> [cls |-> <<>>, text |-> <<>>]]

WellFormed(sel) ==
  /\ Len(sel) >= 2
  /\ sel[1] = "."
  /\ \A i \in 2..Len(sel) : sel[i] \in WordChars

\* soup.select_one(sel) on a well-formed selector: the first match or None
select_one(page, sel) ==
  LET hits == {i \in 1..Len(page.elems) :
                 page.elems[i].cls = SubSeq(sel, 2, Len(sel))}
  IN IF hits = {} THEN NoElement
     ELSE Some(page.elems[CHOOSE i \in hits : \A j \in hits : i <= j])

\* soup.select_one(new_selector) raises: on None and on a malformed selector
SelectRaises(sel) == ~sel.some \/ ~WellFormed(sel.v)

\* element.get_text(strip=True)
get_text(element) == Strip(element.v.text)

\* `element and len(element.get_text(strip=True)) > 0`
SelectorAcceptsAny(element) == element.some
SelectorAccepts(element) == element.some /\ Len(get_text(element)) > 0

\* ------------------------------------------------------------ inference
\* What the POST to the backend ends in: an exception (transport error,
\* timeout, a body without 'response'), a status other than 200, or 200
\* with a response text.
OllamaOutcomes(texts) ==
  {[kind |-> k, body |-> <<>>] : k \in {"exception", "non200"}}
    \cup {[kind |-> "ok", body |-> t] : t \in texts}

ask_ollama_unstripped(o) == IF o.kind = "ok" THEN Some(o.body) ELSE None
ask_ollama(o) == IF o.kind = "ok" THEN Some(Strip(o.body)) ELSE None

\* ------------------------------------------------------------ fetch
S_nike == <<"n", "i", "k", "e", ".", "c", "o", "m">>
ANTI_BOT_SITES ==
  { <<"s", "t", "o", "c", "k", "x", ".", "c", "o", "m">>, S_nike,
    <<"a", "d", "i", "d", "a", "s", ".", "c", "o", "m">>,
    <<"f", "o", "o", "t", "l", "o", "c", "k", "e", "r", ".", "c", "o", "m">>,
    <<"s", "h", "o", "p", "i", "f", "y", ".", "c", "o", "m">> }

\* is_hard_target = any(x in url for x in ANTI_BOT_SITES)
is_hard_target(u) == \E x \in ANTI_BOT_SITES : Contains(u, x)

\* `if is_hard_target and SELENIUM_AVAILABLE`
UseStealthUnguarded(u, available) == is_hard_target(u)
UseStealth(u, available) == is_hard_target(u) /\ available

\* The stealth branch has no except clause: an exception of the browser
\* leaves fetch_html and, uncaught, ends the script.
StealthErrorRetries == "fetch"
StealthErrorGoes == "crashed"

\* try: ... finally: driver.quit() -- quit runs whether or not the body raised
QuitOnlyOnReturn(raised) == ~raised
QuitRuns(raised) == TRUE

\* ------------------------------------------------------------ html
\* Python's s[a:b] for integers a and b: a negative index counts from the
\* end, and both are clipped to the string
SliceIndex(i, n) ==
  IF i < 0 THEN (IF i + n < 0 THEN 0 ELSE i + n) ELSE (IF i > n THEN n ELSE i)
Slice(s, a, b) == SubSeq(s, SliceIndex(a, Len(s)) + 1, SliceIndex(b, Len(s)))

\* s.find(sub): the lowest index (from 0) where sub occurs in s, or -1
Find(s, sub) ==
  LET hits == {i \in 0..(Len(s) - Len(sub)) : SubSeq(s, i + 1, i + Len(sub)) = sub}
  IN IF hits = {} THEN -1 ELSE CHOOSE i \in hits : \A j \in hits : i <= j

Ellipsis == <<".", ".", ".">>

\* the window of smart_clean_html: `if target_keyword:` ... `return
\* body_text[:4000]`
Window(text, target_keyword) ==
  LET idx == IF Truthy(target_keyword)
             THEN Find(Lower(text), Lower(target_keyword.v)) ELSE -1
      start == IF idx - 500 > 0 THEN idx - 500 ELSE 0
      end == IF idx + 1500 < Len(text) THEN idx + 1500 ELSE Len(text)
  IN IF idx # -1
     THEN Ellipsis \o Slice(text, start, end) \o Ellipsis
     ELSE Slice(text, 0, 4000)

\* text_structure[:4000], the context direct_extraction is given
TextContextWhole(text) == text
TextContext(text) == Slice(text, 0, 4000)

\* A parsed document is the sequence of its elements in document order; an
\* element has its tag, whether its type attribute is application/ld+json,
\* its class, the index of its parent (0 at the top), the text it holds
\* before its children, and whether decompose() has destroyed it.
T_script == <<"s", "c", "r", "i", "p", "t">>
T_style == <<"s", "t", "y", "l", "e">>
T_footer == <<"f", "o", "o", "t", "e", "r">>
T_nav == <<"n", "a", "v">>
T_header == <<"h", "e", "a", "d", "e", "r">>
T_svg == <<"s", "v", "g">>
T_button == <<"b", "u", "t", "t", "o", "n">>
T_meta == <<"m", "e", "t", "a">>
T_noscript == <<"n", "o", "s", "c", "r", "i", "p", "t">>
T_iframe == <<"i", "f", "r", "a", "m", "e">>
T_ad == <<"a", "d">>
T_body == <<"b", "o", "d", "y">>
T_div == <<"d", "i", "v">>

\* soup(["script", "style", ...]): the tags the loop visits
NonContentTags ==
  {T_script, T_style, T_footer, T_nav, T_header, T_svg, T_button, T_meta,
   T_noscript, T_iframe, T_ad}

RECURSIVE AncestorsOrSelf(_, _)
AncestorsOrSelf(nodes, i) ==
  IF i = 0 THEN {} ELSE {i} \cup AncestorsOrSelf(nodes, nodes[i].parent)

\* element.decompose(): the element and all below it are destroyed
decompose(nodes, i) ==
  [j \in 1..Len(nodes) |->
     IF i \in AncestorsOrSelf(nodes, j)
     THEN [nodes[j] EXCEPT !.decomposed = TRUE] ELSE nodes[j]]

\* `element.name == 'script' and element.get('type') == 'application/ld+json'`;
\* a destroyed element has lost its name
IsJsonLd(node) == ~node.decomposed /\ node.tag = T_script /\ node.ld

\* the loop over the listed elements, in document order, from element i on
RECURSIVE RemoveNonContent(_, _)
RemoveNonContent(nodes, i) ==
  IF i > Len(nodes) THEN nodes
  ELSE IF nodes[i].tag \in NonContentTags /\ ~IsJsonLd(nodes[i])
       THEN RemoveNonContent(decompose(nodes, i), i + 1)
       ELSE RemoveNonContent(nodes, i + 1)

RECURSIVE Join(_, _)
Join(parts, sep) ==
  IF parts = <<>> THEN <<>>
  ELSE IF Len(parts) = 1 THEN parts[1]
       ELSE parts[1] \o sep \o Join(Tail(parts), sep)

\* soup.get_text(separator="\n", strip=True): the stripped, non-empty strings
\* of the tree in document order, joined by newlines. Whether the string of
\* a script element counts is up to the installed parser library.
RECURSIVE Strings(_, _, _)
Strings(nodes, i, script_strings) ==
  IF i > Len(nodes) THEN <<>>
  ELSE (IF /\ ~nodes[i].decomposed
           /\ Strip(nodes[i].text) # <<>>
           /\ (nodes[i].tag = T_script => script_strings)
        THEN <<Strip(nodes[i].text)>> ELSE <<>>)
       \o Strings(nodes, i + 1, script_strings)
soup_get_text(nodes, script_strings) ==
  Join(Strings(nodes, 1, script_strings), <<"\n">>)

\* str(element): the markup of the element, its text and its children
OpenTag(node) ==
  <<"<">> \o node.tag
    \o (IF node.ld
        THEN <<" ", "t", "y", "p", "e", "=", "\"">>
               \o <<"a", "p", "p", "l", "i", "c", "a", "t", "i", "o", "n", "/",
                    "l", "d", "+", "j", "s", "o", "n", "\"">>
        ELSE <<>>)
    \o (IF node.cls # <<>>
        THEN <<" ", "c", "l", "a", "s", "s", "=", "\"">> \o node.cls \o <<"\"">>
        ELSE <<>>)
    \o <<">">>
CloseTag(node) == <<"<", "/">> \o node.tag \o <<">">>

\* the markup of the elements from j on whose parent is `parent`
RECURSIVE Markup(_, _, _)
Markup(nodes, parent, j) ==
  IF j > Len(nodes) THEN <<>>
  ELSE (IF nodes[j].parent = parent /\ ~nodes[j].decomposed
        THEN OpenTag(nodes[j]) \o nodes[j].text \o Markup(nodes, j, j + 1)
               \o CloseTag(nodes[j])
        ELSE <<>>)
       \o Markup(nodes, parent, j + 1)

\* str(soup.body) if soup.body else str(soup)
BodyText(nodes) ==
  LET bodies == {i \in 1..Len(nodes) :
                   nodes[i].tag = T_body /\ ~nodes[i].decomposed}
  IN IF bodies # {}
     THEN LET b == CHOOSE i \in bodies : \A j \in bodies : i <= j
          IN OpenTag(nodes[b]) \o nodes[b].text \o Markup(nodes, b, b + 1)
               \o CloseTag(nodes[b])
     ELSE Markup(nodes, 0, 1)

smart_clean_html(html_content, target_keyword, script_strings) ==
  LET reduced == RemoveNonContent(html_content, 1)
  IN [soup |-> reduced,
      body_text |-> BodyText(reduced),
      focused_html |-> Window(BodyText(reduced), target_keyword),
      text_structure |-> soup_get_text(reduced, script_strings)]

\* ------------------------------------------------------------ inputs
Https == <<"h", "t", "t", "p", "s", ":", "/", "/">>
H_plain == <<"b", ".", "i", "o">>
U_nike == Https \o S_nike \o <<"/">>
U_plain == Https \o H_plain \o <<"/">>
U_query == Https \o H_plain \o <<"/", "?", "r", "=">> \o S_nike
Urls == {<<>>, U_nike, U_plain, U_query}

I_price == <<"g", "e", "t", " ", "P", "r", "i", "c", "e">>
I_name == <<"t", "h", "e", " ", "n", "a", "m", "e">>
Intents == {<<>>, I_price, W_description, I_name, <<" ">>}

B_bad == [kind |-> "bad", items |-> <<>>]
B_product ==
  [kind |-> "dict",
   items |-> << [name |-> Some(<<"n">>), description |-> Some(<<"d">>),
                 offers |-> [kind |-> "dict",
                             items |-> << [priceCurrency |-> Some(<<"G">>),
                                           price |-> Some(<<"9">>)] >>]] >>]
BlockSet == {B_bad, B_product}

E_price == [cls |-> <<"a">>, text |-> <<" ", "$", "5", " ">>]
E_blank == [cls |-> <<"a">>, text |-> <<" ">>]
ElemSet == {E_price, E_blank}

\* a page whose one element holds more text than the text fallback is given
Pad(n) == [i \in 1..n |-> "-"]
E_long == [cls |-> <<"b">>, text |-> <<" ", "$">> \o Pad(3999) \o <<"5", " ">>]
P_long == [nonempty |-> TRUE, blocks |-> <<>>, elems |-> <<E_long>>]

SeqsUpTo(S, n) == UNION {[1..k -> S] : k \in 0..n}

\* the documents a fetch can return; "" is the one with nonempty = FALSE
EmptyHtml == [nonempty |-> FALSE, blocks |-> <<>>, elems |-> <<>>]
Pages ==
  {[nonempty |-> TRUE, blocks |-> b, elems |-> e] :
     b \in SeqsUpTo(BlockSet, MaxBlocks), e \in SeqsUpTo(ElemSet, MaxElems)}
    \cup {P_long}
NoHtml == [some |-> FALSE, v |-> EmptyHtml]

\* the texts the backend can answer with
SelectorTexts == {<<" ", ".", "a">>, <<".", "z">>, <<"!">>, <<" ">>}
AnswerTexts == {<<"$", "5", "\n">>, <<" ">>}

\* ------------------------------------------------------------ pages
\* The markup a page stands for: a body holding one structured-data script
\* for every block, with the block as JSON text, and one div for every
\* element.
W_offers == <<"o", "f", "f", "e", "r", "s">>
W_priceCurrency == <<"p", "r", "i", "c", "e", "C", "u", "r", "r", "e", "n", "c", "y">>
Quoted(s) == <<"\"">> \o s \o <<"\"">>

\* the JSON members a field gives: one, or none when the field is absent
Member(key, o) ==
  IF o.some THEN <<Quoted(key) \o <<":">> \o Quoted(o.v)>> ELSE <<>>
OfferText(offer) ==
  <<"{">>
    \o Join(Member(W_priceCurrency, offer.priceCurrency)
              \o Member(W_price, offer.price), <<",">>)
    \o <<"}">>
OffersMember(offers) ==
  IF offers.kind = "absent" THEN <<>>
  ELSE <<Quoted(W_offers) \o <<":">>
           \o (IF offers.kind = "dict" THEN OfferText(offers.items[1])
               ELSE <<"[">>
                      \o Join([i \in 1..Len(offers.items) |->
                                 OfferText(offers.items[i])], <<",">>)
                      \o <<"]">>)>>
DataText(data) ==
  <<"{">>
    \o Join(Member(W_name, data.name) \o Member(W_description, data.description)
              \o OffersMember(data.offers), <<",">>)
    \o <<"}">>
BlockText(block) ==
  IF block.kind = "bad" THEN <<"{">>
  ELSE IF block.kind = "dict" THEN DataText(block.items[1])
       ELSE <<"[">>
              \o Join([i \in 1..Len(block.items) |-> DataText(block.items[i])],
                      <<",">>)
              \o <<"]">>

\* BeautifulSoup(html_content, 'html.parser') on the page's markup
Document(page) ==
  <<[tag |-> T_body, ld |-> FALSE, cls |-> <<>>, parent |-> 0, text |-> <<>>,
     decomposed |-> FALSE]>>
    \o [i \in 1..Len(page.blocks) |->
          [tag |-> T_script, ld |-> TRUE, cls |-> <<>>, parent |-> 1,
           text |-> BlockText(page.blocks[i]), decomposed |-> FALSE]]
    \o [i \in 1..Len(page.elems) |->
          [tag |-> T_div, ld |-> FALSE, cls |-> page.elems[i].cls, parent |-> 1,
           text |-> page.elems[i].text, decomposed |-> FALSE]]

\* the prompt of generate_selector and of direct_extraction: the template
\* with the intent and the context put in
generate_selector_prompt(html_snippet, intent_text) ==
  [template |-> "generate_selector", intent |-> intent_text,
   context |-> html_snippet]
direct_extraction_prompt(text_context, intent_text) ==
  [template |-> "direct_extraction", intent |-> intent_text,
   context |-> text_context]

\* cached_selector = ".old-broken-selector" if simulate_break else None
S_old == <<".", "o", "l", "d", "-", "b", "r", "o", "k", "e", "n", "-", "s", "e", "l", "e", "c", "t", "o", "r">>
CachedSelector(broken) == IF broken THEN Some(S_old) ELSE None

\* After the cache block the script goes on to the structured-data check,
\* whatever cached_selector is.
CacheGoesOnSelector(cached) == IF cached.some THEN "stopped" ELSE "jsonld"
CacheGoes(cached) == "jsonld"

\* ------------------------------------------------------------ state
VARIABLES
  SELENIUM_AVAILABLE,  \* the import of the browser backend succeeded
  url, intent, simulate_break,  \* the form's inputs
  pc,              \* where the script is
  html,            \* what fetch_html returned
  fetch_via,       \* the backend fetch_html used: "none", "direct", "stealth"
  live, launched,  \* browser instances alive / ever started
  fetch_tries,     \* requests.get and uc.Chrome calls made by fetch_html
  error,           \* the exception that ended the script, or "none"
  json_data, subject, new_selector, direct_result,
  updates,         \* the status.update calls made, in order
  stages,          \* the stages entered, in order
  selector_calls, text_calls,  \* calls of the inference backend
  responses,       \* what each call of the backend ended in, in order
  soup,            \* smart_clean_html's tree after the removal loop
  body_text,       \* smart_clean_html's serialized tree
  focused_html, text_structure,  \* what smart_clean_html returned
  prompts,         \* the prompts sent to the backend, in order
  cached_selector, \* the selector of the simulated cache
  stop_caught,     \* the except clause ran to its end after st.stop()
  except_entered   \* the except clause after the selector check was entered

vars ==
  <<SELENIUM_AVAILABLE, url, intent, simulate_break, pc, html, fetch_via, live,
    launched, fetch_tries, error, json_data, subject, new_selector, direct_result, updates,
    stages, selector_calls, text_calls, responses, except_entered, soup,
    body_text, focused_html, text_structure, prompts, cached_selector,
    stop_caught>>

inputs == <<SELENIUM_AVAILABLE, url, intent, simulate_break>>
fetchVars == <<html, fetch_via, live, launched, fetch_tries>>
stageVars ==
  <<json_data, subject, new_selector, direct_result, updates, stages,
    selector_calls, text_calls, responses, except_entered>>
cleanVars == <<soup, body_text, focused_html, text_structure>>

\* the state of a run that has not started, but for its inputs, pc, html,
\* body_text and subject
InitRest ==
  /\ fetch_via = "none"
  /\ live = 0
  /\ launched = 0
  /\ fetch_tries = 0
  /\ error = "none"
  /\ json_data = EmptyRecord
  /\ new_selector = None
  /\ direct_result = None
  /\ updates = <<>>
  /\ stages = <<>>
  /\ selector_calls = 0
  /\ text_calls = 0
  /\ responses = <<>>
  /\ except_entered = FALSE
  /\ soup = <<>>
  /\ focused_html = <<>>
  /\ text_structure = <<>>
  /\ prompts = <<>>
  /\ cached_selector = None
  /\ stop_caught = FALSE

Init ==
  /\ SELENIUM_AVAILABLE \in BOOLEAN
  /\ url \in Urls
  /\ intent \in Intents
  /\ simulate_break \in BOOLEAN
  /\ pc = "start"
  /\ html = NoHtml
  /\ body_text = <<>>
  /\ subject = <<>>
  /\ InitRest

\* status.update(label=..., state=...)
Update(state, label, value) == [state |-> state, label |-> label, value |-> value]

\* ------------------------------------------------------------ the run
\* the button is pressed: the inputs are validated, the status opened
Launch ==
  /\ pc = "start"
  /\ IF url = <<>> \/ intent = <<>>
     THEN pc' = "stopped" /\ stages' = stages
     ELSE pc' = "fetch" /\ stages' = <<"Init">>
  /\ UNCHANGED <<cleanVars, prompts, cached_selector, stop_caught>>
  /\ UNCHANGED <<inputs, fetchVars, error, json_data, subject, new_selector,
                 direct_result, updates, selector_calls, text_calls,
                 responses, except_entered>>

\* fetch_html, direct branch: requests.get, any exception gives None
FetchDirect ==
  /\ pc = "fetch"
  /\ ~UseStealth(url, SELENIUM_AVAILABLE)
  /\ \E r \in {NoHtml} \cup {Some(p) : p \in Pages \cup {EmptyHtml}} : html' = r
  /\ fetch_via' = "direct"
  /\ fetch_tries' = fetch_tries + 1
  /\ pc' = "fetched"
  /\ UNCHANGED <<cleanVars, prompts, cached_selector, stop_caught>>
  /\ UNCHANGED <<inputs, live, launched, error, stageVars>>

\* fetch_html, stealth branch: uc.ChromeOptions(), uc.Chrome(options=options),
\* outside the try; without the import the name uc is undefined
StealthLaunch ==
  /\ pc = "fetch"
  /\ UseStealth(url, SELENIUM_AVAILABLE)
  /\ fetch_via' = "stealth"
  /\ fetch_tries' = fetch_tries + 1
  /\ IF ~SELENIUM_AVAILABLE
     THEN /\ pc' = StealthErrorGoes
          /\ error' = "NameError"
          /\ UNCHANGED <<live, launched>>
     ELSE \E ok \in BOOLEAN :
            IF ok
            THEN /\ pc' = "navigate"
                 /\ live' = live + 1
                 /\ launched' = launched + 1
                 /\ error' = error
            ELSE /\ pc' = StealthErrorGoes
                 /\ error' = "launch"
                 /\ UNCHANGED <<live, launched>>
  /\ UNCHANGED <<cleanVars, prompts, cached_selector, stop_caught>>
  /\ UNCHANGED <<inputs, html, stageVars>>

\* what leaving the try block does to the browser
AfterTry(raised) == IF QuitRuns(raised) THEN live - 1 ELSE live

\* driver.get(url); on an exception the finally clause runs and it propagates
StealthNavigate ==
  /\ pc = "navigate"
  /\ \E ok \in BOOLEAN :
       IF ok
       THEN pc' = "capture" /\ UNCHANGED <<live, error>>
       ELSE /\ pc' = StealthErrorGoes
            /\ error' = "navigation"
            /\ live' = AfterTry(TRUE)
  /\ UNCHANGED <<cleanVars, prompts, cached_selector, stop_caught>>
  /\ UNCHANGED <<inputs, html, fetch_via, launched, fetch_tries, stageVars>>

\* time.sleep(5); return driver.page_source; then the finally clause
StealthCapture ==
  /\ pc = "capture"
  /\ \/ \E p \in Pages \cup {EmptyHtml} :
          /\ html' = Some(p)
          /\ pc' = "fetched"
          /\ live' = AfterTry(FALSE)
          /\ error' = error
     \/ /\ pc' = StealthErrorGoes
        /\ error' = "capture"
        /\ live' = AfterTry(TRUE)
        /\ html' = html
  /\ UNCHANGED <<cleanVars, prompts, cached_selector, stop_caught>>
  /\ UNCHANGED <<inputs, fetch_via, launched, fetch_tries, stageVars>>

\* `if not html`: the page failed to load, the script stops
LoadCheck ==
  /\ pc = "fetched"
  /\ IF html.some /\ html.v.nonempty
     THEN pc' = "cache" /\ updates' = updates
     ELSE /\ pc' = "stopped"
          /\ updates' = Append(updates, Update("error", "load_failed", None))
  /\ UNCHANGED <<cleanVars, prompts, cached_selector, stop_caught>>
  /\ UNCHANGED <<inputs, fetchVars, error, json_data, subject, new_selector,
                 direct_result, stages, selector_calls, text_calls,
                 responses, except_entered>>

\* the simulated cache: with simulate_break a selector is announced and
\* declared failed; nothing is queried
CacheCheck ==
  /\ pc = "cache"
  /\ cached_selector' = CachedSelector(simulate_break)
  /\ pc' = CacheGoes(cached_selector')
  /\ stages' = Append(stages, "CacheCheck")
  /\ UNCHANGED <<cleanVars, prompts, stop_caught>>
  /\ UNCHANGED <<inputs, fetchVars, error, json_data, subject, new_selector,
                 direct_result, updates, selector_calls, text_calls,
                 responses, except_entered>>

\* parse_json_ld, extract_subject and the price test; on a hit st.stop()
JsonLdCheck ==
  /\ pc = "jsonld"
  /\ json_data' = parse_json_ld(html.v)
  /\ subject' = extract_subject(intent)
  /\ IF JsonLdHit(subject', json_data')
     THEN /\ updates' = Append(updates,
                          Update("complete", "metadata", json_data'.price))
          /\ stages' = stages \o <<"StructuredDataCheck", "Success">>
          /\ pc' = "stopped"
     ELSE /\ updates' = updates
          /\ stages' = Append(stages, "StructuredDataCheck")
          /\ pc' = "heal"
  /\ UNCHANGED <<cleanVars, prompts, cached_selector, stop_caught>>
  /\ UNCHANGED <<inputs, fetchVars, error, new_selector, direct_result,
                 selector_calls, text_calls, responses, except_entered>>

\* smart_clean_html and generate_selector: one call of the backend
GenerateSelector ==
  /\ pc = "heal"
  /\ \E script_strings \in BOOLEAN :
       LET r == smart_clean_html(Document(html.v), Some(subject), script_strings)
       IN /\ soup' = r.soup
          /\ body_text' = r.body_text
          /\ focused_html' = r.focused_html
          /\ text_structure' = r.text_structure
  /\ prompts' = Append(prompts, generate_selector_prompt(focused_html', intent))
  /\ \E o \in OllamaOutcomes(SelectorTexts) :
       new_selector' = ask_ollama(o) /\ responses' = Append(responses, o)
  /\ selector_calls' = selector_calls + 1
  /\ stages' = Append(stages, "SelectorHealing")
  /\ pc' = "validate"
  /\ UNCHANGED <<cached_selector, stop_caught>>
  /\ UNCHANGED <<inputs, fetchVars, error, json_data, subject, direct_result,
                 updates, text_calls, except_entered>>

\* The try statement around the selector check. st.stop() ends the script by
\* raising in the script's thread, and the bare except catches whatever is
\* raised in the try block, so a hit enters the except clause as a failed
\* query does. Whether the status.write in the clause is then interrupted by
\* the still pending stop request is up to the installed Streamlit: both
\* outcomes are modelled.
ValidateSelector ==
  /\ pc = "validate"
  /\ IF SelectRaises(new_selector)
     THEN /\ except_entered' = TRUE
          /\ pc' = "fallback"
          /\ UNCHANGED <<updates, stages, stop_caught>>
     ELSE LET element == select_one(html.v, new_selector.v)
          IN IF SelectorAccepts(element)
             THEN /\ updates' = Append(updates,
                         Update("complete", "healed_selector",
                                Some(get_text(element))))
                  /\ stages' = Append(stages, "Success")
                  /\ except_entered' = TRUE
                  /\ \E pending \in BOOLEAN :
                       /\ pc' = IF pending THEN "stopped" ELSE "fallback"
                       /\ stop_caught' = ~pending
             ELSE /\ pc' = "fallback"
                  /\ UNCHANGED <<updates, stages, except_entered, stop_caught>>
  /\ UNCHANGED <<cleanVars, prompts, cached_selector>>
  /\ UNCHANGED <<inputs, fetchVars, error, json_data, subject, new_selector,
                 direct_result, selector_calls, text_calls, responses>>

\* direct_extraction and the final status
TextFallback ==
  /\ pc = "fallback"
  /\ prompts' = Append(prompts,
                  direct_extraction_prompt(TextContext(text_structure), intent))
  /\ \E o \in OllamaOutcomes(AnswerTexts) :
       direct_result' = ask_ollama(o) /\ responses' = Append(responses, o)
  /\ text_calls' = text_calls + 1
  /\ IF Truthy(direct_result')
     THEN /\ updates' = Append(updates,
                          Update("complete", "healed_text", direct_result'))
          /\ stages' = stages \o <<"TextFallback", "Success">>
     ELSE /\ updates' = Append(updates, Update("error", "all_failed", None))
          /\ stages' = stages \o <<"TextFallback", "Failed">>
  /\ pc' = "done"
  /\ UNCHANGED <<cleanVars, cached_selector, stop_caught>>
  /\ UNCHANGED <<inputs, fetchVars, error, json_data, subject, new_selector,
                 selector_calls, except_entered>>

Next ==
  \/ Launch
  \/ FetchDirect
  \/ StealthLaunch
  \/ StealthNavigate
  \/ StealthCapture
  \/ LoadCheck
  \/ CacheCheck
  \/ JsonLdCheck
  \/ GenerateSelector
  \/ ValidateSelector
  \/ TextFallback

Spec == Init /\ [][Next]_vars

\* ------------------------------------------------------------ properties
Last(q) == q[Len(q)]

\* the script is over: by st.stop(), by running to its end, by an exception
Ended == pc \in {"stopped", "done", "crashed"}

\* the strategy a final status stands for
Strategy(u) ==
  CASE u.label = "metadata" -> "structured-data"
    [] u.label = "healed_selector" -> "selector"
    [] u.label = "healed_text" -> "text-fallback"
    [] OTHER -> "none"

Reported(label) == \E i \in 1..Len(updates) : updates[i].label = label

\* the selector check has been made
Validated == selector_calls = 1 /\ pc \in {"fallback", "stopped", "done"}

\* the candidate selector matches, and its first match has non-blank text
FirstMatchHasText ==
  /\ new_selector.some
  /\ WellFormed(new_selector.v)
  /\ select_one(html.v, new_selector.v).some
  /\ Strip(select_one(html.v, new_selector.v).v.text) # <<>>

\* C1: once a stage has reported Success no later stage executes; after the
\* selector stage reports success the except clause is not entered, the text
\* fallback does not call the backend and no further final status is written.
C1_ShortCircuit ==
  /\ \A i \in 1..Len(stages) : stages[i] = "Success" => i = Len(stages)
  /\ Reported("healed_selector") =>
       /\ ~except_entered
       /\ text_calls = 0
       /\ Last(updates).label = "healed_selector"

\* C2: when the JSON-LD check does not succeed and the candidate selector's
\* first match has non-blank text, the run's final outcome is Success with
\* that element's trimmed text and strategy selector.
C2_SelectorOutcome ==
  (Ended /\ Validated /\ FirstMatchHasText) =>
    /\ updates # <<>>
    /\ Last(updates) =
         Update("complete", "healed_selector",
                Some(Strip(select_one(html.v, new_selector.v).v.text)))
    /\ Strategy(Last(updates)) = "selector"

Rank(stage) ==
  CASE stage = "Init" -> 1
    [] stage = "CacheCheck" -> 2
    [] stage = "StructuredDataCheck" -> 3
    [] stage = "SelectorHealing" -> 4
    [] stage = "TextFallback" -> 5
    [] OTHER -> 6

\* C3: the stages are entered in the order Init, CacheCheck,
\* StructuredDataCheck, SelectorHealing, TextFallback, terminal, never going
\* back and never leaving Success or Failed, and a run that fetched a page
\* and is over has entered exactly one terminal state.
C3_StrictlyForward ==
  /\ \A i, j \in 1..Len(stages) : i < j => Rank(stages[i]) < Rank(stages[j])
  /\ (pc \in {"stopped", "done"} /\ Len(stages) > 1) =>
       Cardinality({i \in 1..Len(stages) : Rank(stages[i]) = 6}) = 1

KeyName(k) ==
  CASE k = "name" -> W_name
    [] k = "description" -> W_description
    [] OTHER -> W_price

\* C4: once the JSON-LD check has run, if the subject is a substring of the
\* key name of a field the record holds, the run has stopped in Success with
\* that field's value and strategy structured-data.
C4_MatchRule ==
  \A k \in {"name", "description", "price"} :
    (Len(stages) >= 3 /\ Contains(KeyName(k), subject) /\ json_data[k].some) =>
      /\ pc = "stopped"
      /\ updates = <<Update("complete", "metadata", json_data[k])>>
      /\ Last(stages) = "Success"

\* the selector stage failed: no response, a malformed selector, no match,
\* or a first match with blank text
SelectorFailed == Validated /\ ~FirstMatchHasText

\* C5: when the selector stage fails for any reason the run does not abort
\* and reports no selector success, it goes on to the text fallback, and a
\* non-empty answer there ends the run in Success with that answer and
\* strategy text-fallback.
C5_RejectionNotFatal ==
  SelectorFailed =>
    /\ pc \in {"fallback", "done"}
    /\ error = "none"
    /\ ~Reported("healed_selector")
    /\ pc = "done" =>
         /\ text_calls = 1
         /\ Last(stages) \in {"Success", "Failed"}
         /\ stages[Len(stages) - 1] = "TextFallback"
         /\ LET o == Last(responses)
            IN (o.kind = "ok" /\ Strip(o.body) # <<>>) =>
                 /\ Last(updates) =
                      Update("complete", "healed_text", Some(Strip(o.body)))
                 /\ Strategy(Last(updates)) = "text-fallback"
                 /\ Last(stages) = "Success"

C5_Witness ==
  /\ SelectorFailed
  /\ new_selector.some
  /\ WellFormed(new_selector.v)
  /\ select_one(html.v, new_selector.v).some
  /\ pc = "done"
  /\ Last(updates).label = "healed_text"

\* C6: a run that made the text-fallback call ends in Success exactly when
\* the backend's answer is non-empty after trimming and in Failed otherwise;
\* and a run whose every backend call got no response, the JSON-LD check not
\* having succeeded, ends in Failed with strategy none.
C6_TextFallbackOutcome ==
  /\ text_calls = 1 =>
       LET o == Last(responses)
       IN /\ pc = "done"
          /\ IF o.kind = "ok" /\ Strip(o.body) # <<>>
             THEN /\ Last(updates) =
                       Update("complete", "healed_text", Some(Strip(o.body)))
                  /\ Last(stages) = "Success"
             ELSE /\ Last(updates) = Update("error", "all_failed", None)
                  /\ Last(stages) = "Failed"
                  /\ Strategy(Last(updates)) = "none"
  /\ (Ended /\ selector_calls = 1
        /\ \A i \in 1..Len(responses) : responses[i].kind # "ok") =>
       /\ pc = "done"
       /\ Len(responses) = 2
       /\ updates = <<Update("error", "all_failed", None)>>

C6_Witness ==
  /\ pc = "done"
  /\ Last(responses).kind = "ok"
  /\ Strip(Last(responses).body) = <<>>
  /\ Last(updates).label = "all_failed"

\* the host of a URL: what stands between "://" and the next "/", "?" or "#"
HostOf(u) ==
  LET rest == SubSeq(u, Len(Https) + 1, Len(u))
      stops == {i \in 1..Len(rest) : rest[i] \in {"/", "?", "#"}}
  IN IF stops = {} THEN rest
     ELSE SubSeq(rest, 1, (CHOOSE i \in stops : \A j \in stops : i <= j) - 1)

\* the host is a listed domain or a subdomain of one
HostListed(u) ==
  LET h == HostOf(u)
  IN \E d \in ANTI_BOT_SITES :
       \/ h = d
       \/ /\ Len(h) > Len(d)
          /\ SubSeq(h, Len(h) - Len(d), Len(h)) = <<".">> \o d

\* C7: fetch_html uses the stealth browser exactly when the URL's host is on
\* the bot-protected list and the backend is available; any other URL is
\* fetched by direct HTTP.
C7_FetchDecision ==
  fetch_via # "none" =>
    (fetch_via = "stealth" <=> (HostListed(url) /\ SELENIUM_AVAILABLE))

\* C8: with the stealth backend unavailable, a URL of a bot-protected domain
\* is fetched by direct HTTP; the browser backend is not touched and nothing
\* is raised.
C8_FallbackToDirect ==
  (~SELENIUM_AVAILABLE /\ HostListed(url) /\ pc \notin {"start", "fetch"}
     /\ intent # <<>>) =>
    /\ fetch_via = "direct"
    /\ launched = 0
    /\ live = 0
    /\ error = "none"
    /\ pc # "crashed"

C8_Witness ==
  /\ ~SELENIUM_AVAILABLE
  /\ HostListed(url)
  /\ fetch_via = "direct"
  /\ pc = "cache"

\* C9: outside fetch_html no browser instance is alive: every instance that
\* was launched has been quit when fetch_html returns or raises.
C9_BrowserReleased == pc \notin {"navigate", "capture"} => live = 0

C9_Witness ==
  /\ launched = 1
  /\ pc = "crashed"
  /\ error = "navigation"
  /\ live = 0

\* the page fetch failed
FetchFailed ==
  \/ error \in {"launch", "navigation"}
  \/ fetch_via = "direct" /\ ~html.some /\ pc # "fetched"

\* C10: a failed page fetch, by either backend, ends the run in the 'failed
\* to load page' outcome, with no extraction stage and no backend call.
C10_FetchFailureReported ==
  FetchFailed =>
    /\ pc = "stopped"
    /\ updates = <<Update("error", "load_failed", None)>>
    /\ stages = <<"Init">>
    /\ selector_calls = 0
    /\ text_calls = 0

\* ------------------------------------------------------------ parse_json_ld alone
B_second ==
  [kind |-> "dict",
   items |-> << [name |-> Some(<<"m">>), description |-> Some(<<"e">>),
                 offers |-> [kind |-> "dict",
                             items |-> << [priceCurrency |-> None,
                                           price |-> Some(<<"7">>)] >>]] >>]
B_list ==
  [kind |-> "list",
   items |-> << [name |-> Some(<<"k">>), description |-> None,
                 offers |-> [kind |-> "list",
                             items |-> << [priceCurrency |-> Some(<<"E">>),
                                           price |-> None] >>]] >>]
B_emptylist == [kind |-> "list", items |-> <<>>]
B_partial ==
  [kind |-> "dict",
   items |-> << [name |-> Some(<<"q">>), description |-> None,
                 offers |-> [kind |-> "list", items |-> <<>>]] >>]
LdBlockSet == {B_bad, B_product, B_second, B_list, B_emptylist, B_partial}

LdPages ==
  {[nonempty |-> TRUE, blocks |-> b, elems |-> <<>>] :
     b \in SeqsUpTo(LdBlockSet, MaxLdBlocks)}

\* a parsed page is handed to parse_json_ld
InitJsonLd ==
  /\ SELENIUM_AVAILABLE = FALSE
  /\ url = U_plain
  /\ intent = I_price
  /\ simulate_break = FALSE
  /\ pc = "parse"
  /\ html \in {Some(p) : p \in LdPages}
  /\ body_text = <<>>
  /\ subject = <<>>
  /\ InitRest

\* json_data = ScraperLogic.parse_json_ld(soup)
ApplyJsonLd ==
  /\ pc = "parse"
  /\ json_data' = parse_json_ld(html.v)
  /\ pc' = "parsed"
  /\ UNCHANGED <<cleanVars, prompts, cached_selector, stop_caught>>
  /\ UNCHANGED <<inputs, fetchVars, error, subject, new_selector,
                 direct_result, updates, stages, selector_calls, text_calls,
                 responses, except_entered>>

SpecJsonLd == InitJsonLd /\ [][ApplyJsonLd]_vars

\* what json.loads and the list rule make of a block that parses
DataOf(block) == IF block.items = <<>> THEN EmptyData ELSE block.items[1]

\* the offers field holds an offer that can be used: an object, or the
\* first element of a non-empty array
HasOffer(block) ==
  /\ block.kind # "bad"
  /\ DataOf(block).offers.kind # "absent"
  /\ DataOf(block).offers.items # <<>>

\* the block provides the field
Provides(block, f) ==
  IF f = "price" THEN HasOffer(block)
  ELSE block.kind # "bad" /\ DataOf(block)[f].some

\* the value the block gives the field
Provided(block, f) ==
  IF f = "price" THEN Some(PriceOf(DataOf(block).offers.items[1]))
  ELSE DataOf(block)[f]

\* C11: the record holds, for each of name, description and price, the value
\* from the first block that provides it; no later block overwrites it.
C11_FirstWins ==
  pc = "parsed" =>
    \A f \in {"name", "description", "price"} :
      LET blocks == html.v.blocks
          givers == {i \in 1..Len(blocks) : Provides(blocks[i], f)}
      IN IF givers = {} THEN ~json_data[f].some
         ELSE json_data[f] =
                Provided(blocks[CHOOSE i \in givers : \A j \in givers : i <= j], f)

\* ------------------------------------------------------------ extract_subject alone
IntentChars == {"a", "N", "x", " "}
IntentStrings == SeqsUpTo(IntentChars, MaxIntentLen)

\* an intent is handed to extract_subject
InitSubject ==
  /\ SELENIUM_AVAILABLE = FALSE
  /\ url = U_plain
  /\ intent \in IntentStrings
  /\ simulate_break = FALSE
  /\ pc = "subject"
  /\ html = NoHtml
  /\ body_text = <<>>
  /\ subject = <<>>
  /\ InitRest

\* subject = ScraperLogic.extract_subject(intent)
ApplySubject ==
  /\ pc = "subject"
  /\ subject' = extract_subject(intent)
  /\ pc' = "subject_done"
  /\ UNCHANGED <<cleanVars, prompts, cached_selector, stop_caught>>
  /\ UNCHANGED <<inputs, fetchVars, error, json_data, new_selector,
                 direct_result, updates, stages, selector_calls, text_calls,
                 responses, except_entered>>

SpecSubject == InitSubject /\ [][ApplySubject]_vars

\* the tokens of a string: its maximal runs of word characters, as <<first, last>>
Runs(s) ==
  {r \in (1..Len(s)) \X (1..Len(s)) :
     /\ r[1] <= r[2]
     /\ \A k \in r[1]..r[2] : s[k] \in WordChars
     /\ r[1] = 1 \/ s[r[1] - 1] \notin WordChars
     /\ r[2] = Len(s) \/ s[r[2] + 1] \notin WordChars}

\* the token of a run, in lower case
TokenAt(s, r) == Lower(SubSeq(s, r[1], r[2]))

\* the run of a set that comes last in the string
LastRun(R) == CHOOSE r \in R : \A q \in R : q[1] <= r[1]

\* C12: extract_subject returns a non-empty lower-case token: the last token
\* of the intent that is no stop word; the last token when all are stop
\* words; "data" when the intent holds no token.
C12_SubjectResult ==
  pc = "subject_done" =>
    LET all == Runs(intent)
        kept == {r \in all : TokenAt(intent, r) \notin stop_words}
    IN /\ subject # <<>>
       /\ \A k \in 1..Len(subject) : LowerChar(subject[k]) = subject[k]
       /\ IF kept # {} THEN subject = TokenAt(intent, LastRun(kept))
          ELSE IF all # {} THEN subject = TokenAt(intent, LastRun(all))
          ELSE subject = W_data

C12_Witness ==
  /\ pc = "subject_done"
  /\ Cardinality(Runs(intent)) = 2
  /\ \A r \in Runs(intent) : TokenAt(intent, r) \in stop_words
  /\ subject = <<"a", "n">>

\* C13: in every run fetch_html makes at most one attempt, with one
\* backend, and the inference backend is called at most once for the
\* selector and at most once for the text fallback, one request per call;
\* nothing that failed is tried again.
C13_NoRetries ==
  /\ fetch_tries <= 1
  /\ fetch_tries = 1 <=> fetch_via # "none"
  /\ fetch_via = "direct" => launched = 0
  /\ launched <= 1
  /\ selector_calls <= 1
  /\ text_calls <= 1
  /\ Len(responses) = selector_calls + text_calls

C13_Witness ==
  /\ pc = "crashed"
  /\ error = "navigation"
  /\ fetch_via = "stealth"
  /\ fetch_tries = 1

\* the block cannot be parsed, or its processing raises
Fails(block) ==
  \/ block.kind = "bad"
  \/ DataOf(block).offers.kind # "absent" /\ DataOf(block).offers.items = <<>>

\* a sequence without its i-th element
Without(q, i) == SubSeq(q, 1, i - 1) \o SubSeq(q, i + 1, Len(q))

\* C14: a block that cannot be parsed, or whose processing raises, is
\* skipped: parse_json_ld returns, the block gives the record no field, and
\* the blocks after it are processed, so the record is the one the page
\* without that block gives.
C14_BlockErrorsLocal ==
  pc = "parsed" =>
    LET blocks == html.v.blocks
    IN /\ (\A i \in 1..Len(blocks) : Fails(blocks[i])) => json_data = EmptyRecord
       /\ \A i \in 1..Len(blocks) :
            Fails(blocks[i]) =>
              json_data = ParseFrom(EmptyRecord, Without(blocks, i), 1)

\* C15: when a block of the page holds a usable offers field (an object, or
\* the first element of an array), the record's price is set and is some such
\* block's priceCurrency, one space, its price, a missing sub-field giving
\* the empty string.
C15_PriceComposition ==
  pc = "parsed" =>
    LET blocks == html.v.blocks
        givers == {i \in 1..Len(blocks) : HasOffer(blocks[i])}
    IN /\ givers # {} =>
            /\ json_data.price.some
            /\ \E i \in givers :
                 LET offer == DataOf(blocks[i]).offers.items[1]
                     cur == IF offer.priceCurrency.some THEN offer.priceCurrency.v ELSE <<>>
                     amt == IF offer.price.some THEN offer.price.v ELSE <<>>
                     p == json_data.price.v
                 IN /\ Len(p) = Len(cur) + 1 + Len(amt)
                    /\ SubSeq(p, 1, Len(cur)) = cur
                    /\ p[Len(cur) + 1] = " "
                    /\ SubSeq(p, Len(cur) + 2, Len(p)) = amt
       /\ givers = {} => ~json_data.price.some

C15_Witness ==
  /\ pc = "parsed"
  /\ html.v.blocks = <<B_bad, B_list, B_partial>>
  /\ json_data.price = Some(<<"E", " ">>)

\* ------------------------------------------------------------ window
\* The window of smart_clean_html on its own: serialized documents with a
\* keyword at chosen distances from the start and the end.
K_mixed == <<"A", "b">>
LeadLengths == {0, 1, 499, 500, 501}
TailLengths == {0, 1, 1497, 1498, 1499, 3497, 3498}
WindowTexts ==
  {h \o Pad(a) \o K_mixed \o Pad(b) \o t :
     h \in {<<>>, <<C_IDot>>}, a \in LeadLengths, b \in TailLengths,
     t \in {<<>>, K_mixed}}
Keywords ==
  {None, Some(<<>>), Some(<<"a", "b">>), Some(<<"A", "B">>), Some(<<"z">>)}

\* target_keyword is passed on in `subject`
InitWindow ==
  /\ SELENIUM_AVAILABLE = FALSE
  /\ url = <<>>
  /\ intent = <<>>
  /\ simulate_break = FALSE
  /\ pc = "window"
  /\ html = NoHtml
  /\ body_text \in WindowTexts
  /\ subject \in Keywords
  /\ InitRest

ApplyWindow ==
  /\ pc = "window"
  /\ focused_html' = Window(body_text, subject)
  /\ pc' = "window_done"
  /\ UNCHANGED <<inputs, fetchVars, error, stageVars, soup, body_text,
                 text_structure, prompts, cached_selector, stop_caught>>

SpecWindow == InitWindow /\ [][ApplyWindow]_vars

\* the subject occurs in the text at index i (from 0), whatever the case
OccursAt(text, k, i) ==
  /\ i + Len(k) <= Len(text)
  /\ \A j \in 1..Len(k) : LowerChar(text[i + j]) = LowerChar(k[j])

\* C16: when a subject is given and occurs in the serialized document,
\* whatever the case, the window is "...", the characters from 500 before
\* the first match (not before the start) to 1500 after the match's start
\* (not past the end), "..."; otherwise it is the first 4000 characters.
C16_Windowing ==
  pc = "window_done" =>
    LET n == Len(body_text)
        k == IF subject.some THEN subject.v ELSE <<>>
        found == k # <<>> /\ \E i \in 0..n : OccursAt(body_text, k, i)
    IN IF found
       THEN \E i \in 0..n :
              /\ OccursAt(body_text, k, i)
              /\ \A j \in 0..(i - 1) : ~OccursAt(body_text, k, j)
              /\ LET start == IF i < 500 THEN 0 ELSE i - 500
                     end == IF i + 1500 > n THEN n ELSE i + 1500
                 IN /\ start >= 0 /\ end <= n
                    /\ Len(focused_html) = 3 + (end - start) + 3
                    /\ \A j \in 1..3 : focused_html[j] = "."
                    /\ \A j \in 1..(end - start) :
                         focused_html[3 + j] = body_text[start + j]
                    /\ \A j \in 1..3 : focused_html[3 + (end - start) + j] = "."
       ELSE /\ Len(focused_html) = (IF n < 4000 THEN n ELSE 4000)
            /\ \A j \in 1..Len(focused_html) : focused_html[j] = body_text[j]

\* ------------------------------------------------------------ reducer
\* smart_clean_html on its own: small documents in which every element holds
\* a text no other element holds.
MaxNodes == 3
Digits == <<"1", "2", "3", "4", "5", "6", "7", "8", "9">>
Marker(i) == Digits[i]

\* the elements a document is made of: body, div, header, script with and
\* without the structured-data type
NodeKinds ==
  {[tag |-> t, ld |-> FALSE] : t \in {T_body, T_div, T_header, T_script}}
    \cup {[tag |-> T_script, ld |-> TRUE]}

\* where the next element of document d can be put: at the top, or below
\* the last element or one of its ancestors, but never below a script
Parents(d) ==
  {0} \cup {p \in AncestorsOrSelf(d, Len(d)) : d[p].tag # T_script}

\* the documents of n elements, in document order
RECURSIVE Documents(_)
Documents(n) ==
  IF n = 0 THEN {<<>>}
  ELSE UNION
         {{Append(d, [tag |-> k.tag, ld |-> k.ld, cls |-> <<>>, parent |-> p,
                      text |-> <<" ", Marker(n)>>, decomposed |-> FALSE]) :
             k \in NodeKinds, p \in Parents(d)} :
          d \in Documents(n - 1)}

InitClean ==
  /\ SELENIUM_AVAILABLE = FALSE
  /\ url = <<>>
  /\ intent = <<>>
  /\ simulate_break = FALSE
  /\ pc = "clean"
  /\ html \in {Some(d) : d \in UNION {Documents(n) : n \in 0..MaxNodes}}
  /\ body_text = <<>>
  /\ subject \in {None, Some(<<"1">>)}
  /\ InitRest

\* focused_html, text_structure = ScraperLogic.smart_clean_html(html, subject)
ApplyClean ==
  /\ pc = "clean"
  /\ \E script_strings \in BOOLEAN :
       LET r == smart_clean_html(html.v, subject, script_strings)
       IN /\ soup' = r.soup
          /\ body_text' = r.body_text
          /\ focused_html' = r.focused_html
          /\ text_structure' = r.text_structure
  /\ pc' = "clean_done"
  /\ UNCHANGED <<inputs, fetchVars, error, stageVars, prompts,
                 cached_selector, stop_caught>>

SpecClean == InitClean /\ [][ApplyClean]_vars

\* the element is a structured-data script
StructuredData(d, i) == d[i].tag = T_script /\ d[i].ld

\* the elements from i up to the top of the document
RECURSIVE Chain(_, _)
Chain(d, i) == IF i = 0 THEN {} ELSE {i} \cup Chain(d, d[i].parent)

\* the element is, or lies inside, a non-content element that is removed
InsideRemoved(d, i) ==
  \E a \in Chain(d, i) : d[a].tag \in NonContentTags /\ ~StructuredData(d, a)

\* the element is a content element and lies inside no non-content element
ContentOutside(d, i) == \A a \in Chain(d, i) : d[a].tag \notin NonContentTags

\* no text from inside a removed element is in the flattened text
C17_NoRemovedText ==
  pc = "clean_done" =>
    \A i \in 1..Len(html.v) :
      InsideRemoved(html.v, i) => ~Contains(text_structure, <<Marker(i)>>)

\* the text of content outside non-content elements is kept
C17_ContentKept ==
  pc = "clean_done" =>
    \A i \in 1..Len(html.v) :
      ContentOutside(html.v, i) => Contains(text_structure, <<Marker(i)>>)

\* C17: after the reduction the flattened text holds no text of an element
\* inside a removed non-content element, every structured-data script of the
\* input is still in the tree, one nested in a non-content element included,
\* and the text of every content element outside non-content elements is in
\* the flattened text.
C17_ContentFilter ==
  /\ C17_NoRemovedText
  /\ pc = "clean_done" =>
       \A i \in 1..Len(html.v) :
         StructuredData(html.v, i) => ~soup[i].decomposed
  /\ C17_ContentKept

\* ------------------------------------------------------------ cache
\* What the stages after the cache stage enter and report, told from the
\* page h, the intent i, the backend's answers rs and whether the script
\* went on after the st.stop() of a selector hit: simulate_break and
\* cached_selector are no part of it.
LaterStages(h, i, rs, went_on) ==
  LET found == parse_json_ld(h)
      subj == extract_subject(i)
  IN IF JsonLdHit(subj, found)
     THEN [updates |-> <<Update("complete", "metadata", found.price)>>,
           stages |-> <<"StructuredDataCheck", "Success">>]
     ELSE LET sel == ask_ollama(rs[1])
              hit == /\ ~SelectRaises(sel)
                     /\ SelectorAccepts(select_one(h, sel.v))
              byselector ==
                IF hit
                THEN [updates |->
                        <<Update("complete", "healed_selector",
                                 Some(get_text(select_one(h, sel.v))))>>,
                      stages |-> <<"StructuredDataCheck", "SelectorHealing",
                                   "Success">>]
                ELSE [updates |-> <<>>,
                      stages |-> <<"StructuredDataCheck", "SelectorHealing">>]
          IN IF hit /\ ~went_on THEN byselector
             ELSE LET answer == ask_ollama(rs[2])
                  IN IF Truthy(answer)
                     THEN [updates |->
                             Append(byselector.updates,
                                    Update("complete", "healed_text", answer)),
                           stages |-> byselector.stages
                                        \o <<"TextFallback", "Success">>]
                     ELSE [updates |->
                             Append(byselector.updates,
                                    Update("error", "all_failed", None)),
                           stages |-> byselector.stages
                                        \o <<"TextFallback", "Failed">>]

\* C18: the cache stage reports nothing and always goes on to the
\* structured-data check, and what a finished run did and reported after it
\* is told by the page, the intent and the backend's behaviour alone, so that
\* the runs with and without simulate_break agree on it.
C18_CacheNeverDecides ==
  /\ (stages # <<>> /\ Last(stages) = "CacheCheck") =>
       pc = "jsonld" /\ updates = <<>>
  /\ (Ended /\ \E k \in 1..Len(stages) : stages[k] = "CacheCheck") =>
       LET k == CHOOSE j \in 1..Len(stages) : stages[j] = "CacheCheck"
           later == LaterStages(html.v, intent, responses, stop_caught)
       IN /\ updates = later.updates
          /\ SubSeq(stages, k + 1, Len(stages)) = later.stages

C18_Witness ==
  /\ pc = "done"
  /\ simulate_break
  /\ cached_selector = Some(S_old)
  /\ Strategy(Last(updates)) = "text-fallback"

\* ------------------------------------------------------------ text
\* C19: once the text fallback has run, the one prompt of direct_extraction
\* holds as its context the first min(4000, length) characters of
\* text_structure, so never more than 4000.
C19_TextContextBound ==
  text_calls = 1 =>
    LET sent == {i \in 1..Len(prompts) :
                   prompts[i].template = "direct_extraction"}
        n == Len(text_structure)
    IN /\ Cardinality(sent) = 1
       /\ \A i \in sent :
            /\ Len(prompts[i].context) = (IF n < 4000 THEN n ELSE 4000)
            /\ Len(prompts[i].context) <= 4000
            /\ \A j \in 1..Len(prompts[i].context) :
                 prompts[i].context[j] = text_structure[j]

C19_Witness ==
  /\ pc = "done"
  /\ text_calls = 1
  /\ Len(text_structure) = 4001
  /\ Len(Last(prompts).context) = 4000
  /\ Last(prompts).context[1] = "$"

====
